---- MODULE Spec2Model ----
(***************************************************************************)
(* Reference LRN (local response normalization) of src/cpu/ref_lrn.cpp:    *)
(* ref_lrn_fwd_t::execute_forward and ref_lrn_bwd_t::execute_backward for  *)
(* the layouts nchw, nhwc, nChw8c and nChw16c.                             *)
(*                                                                         *)
(* One behaviour is one forward invocation followed by one backward        *)
(* invocation on the same src.  Each invocation is an OpenMP parallel for  *)
(* over the collapsed (mb, c, h, w) nest with schedule(static): every      *)
(* thread owns one contiguous chunk of iterations and runs it in order,    *)
(* the threads interleave freely, and the loop ends with a join.           *)
(*                                                                         *)
(* Arithmetic.  float values are kept exact: an element of src / diff_dst  *)
(* is a small natural number, omega = k + alpha*sum/summands is the        *)
(* fraction [num, den], and the results of fast_negative_powf and of the   *)
(* final products are kept as the expression the code evaluates (records), *)
(* since x^(-beta) is not rational.  Rounding is not modelled.  int and    *)
(* size_t arithmetic is modelled without overflow (the shapes are small).  *)
(*                                                                         *)
(* An access outside a buffer of MB*C*H*W elements is undefined behaviour: *)
(* an out-of-range read yields junk, an arbitrary value fixed per          *)
(* behaviour, an out-of-range write leaves the modelled buffers alone;     *)
(* both stay visible in last, the kernel calls of the latest iteration.    *)
(***************************************************************************)
EXTENDS Integers, Sequences, FiniteSets, TLC

\* ---- bounds of the model ------------------------------------------------
\* Every dimension MB, C, H, W is at most MaxDim (C may also be MaxCBlk whole
\* blocks of a blocked layout), a loop nest has at most MaxIter iterations
\* and makes at most MaxCalls kernel calls, local_size is at most
\* 2 * MaxHalf + 1, a tensor element is in 0..MaxVal.
MaxDim == 3
MaxIter == 12
MaxCalls == 64
MaxCBlk == 2
MaxHalf == 2
MaxVal == 2

\* ---- the layouts of the template parameter fmt --------------------------
Fmts == {"nchw", "nhwc", "nChw8c", "nChw16c"}

Threads == {0, 1}

VARIABLES conf, src, diff_dst, junk, dst, ws, diff_src, pc, pos, nwrites, last

vars == <<conf, src, diff_dst, junk, dst, ws, diff_src, pc, pos, nwrites, last>>

\* ---- conf_ accessors ----------------------------------------------------
MB == conf.MB
C == conf.C
H == conf.H
W == conf.W
CHW == C * H * W
across_channels == conf.across
blksize == IF conf.fmt = "nChw16c" THEN 16 ELSE 8
IsBlocked == conf.fmt \in {"nChw16c", "nChw8c"}
BufSize == MB * CHW

Max(a, b) == IF a > b THEN a ELSE b
Min(a, b) == IF a < b THEN a ELSE b

\* ---- layout addressing --------------------------------------------------
\* Mutant of data_off_fwd: the block stride without its blksize factor.
data_off_fwd_short_block(mb, c, h, w) ==
    CASE conf.fmt \in {"nChw16c", "nChw8c"} ->
            mb * CHW + (c \div blksize) * H * W
            + h * W * blksize + w * blksize + (c % blksize)
      [] conf.fmt = "nchw" -> mb * CHW + c * H * W + h * W + w
      [] conf.fmt = "nhwc" -> mb * CHW + h * W * C + w * C + c

data_off_fwd(mb, c, h, w) ==
    CASE conf.fmt \in {"nChw16c", "nChw8c"} ->
            mb * CHW + (c \div blksize) * H * W * blksize
            + h * W * blksize + w * blksize + (c % blksize)
      [] conf.fmt = "nchw" -> mb * CHW + c * H * W + h * W + w
      [] conf.fmt = "nhwc" -> mb * CHW + h * W * C + w * C + c

\* Mutant of data_off_bwd: the nhwc column stride is W instead of C.
data_off_bwd_w_stride(mb, c, h, w) ==
    CASE conf.fmt \in {"nChw16c", "nChw8c"} ->
            mb * CHW + (c \div blksize) * H * W * blksize
            + h * W * blksize + w * blksize + (c % blksize)
      [] conf.fmt = "nchw" -> mb * CHW + c * H * W + h * W + w
      [] conf.fmt = "nhwc" -> mb * CHW + h * W * C + w * W + c

data_off_bwd(mb, c, h, w) ==
    CASE conf.fmt \in {"nChw16c", "nChw8c"} ->
            mb * CHW + (c \div blksize) * H * W * blksize
            + h * W * blksize + w * blksize + (c % blksize)
      [] conf.fmt = "nchw" -> mb * CHW + c * H * W + h * W + w
      [] conf.fmt = "nhwc" -> mb * CHW + h * W * C + w * C + c

\* ---- buffer reads ---------------------------------------------------------
InBuf(off) == off \in 0..(BufSize - 1)
SrcAt(off) == IF InBuf(off) THEN src[off] ELSE junk
DiffDstAt(off) == IF InBuf(off) THEN diff_dst[off] ELSE junk

\* ---- power approximation ------------------------------------------------
\* beta is held in quarters: 3 is 0.75f, the fast path.
fast_negative_powf(omega, beta) ==
    IF beta = 3
    THEN [fn |-> "rsqrt*sqrt(rsqrt)", x |-> omega]
    ELSE [fn |-> "1/powf", x |-> omega, beta |-> beta]

\* ---- forward kernel -----------------------------------------------------
fwd_half_size == (conf.size - 1) \div 2
fwd_c_st(oc) == Max(oc - fwd_half_size + 0, 0)
fwd_c_en(oc) == Min(oc + fwd_half_size + 1, C)
fwd_h_st(oh) == Max(oh - fwd_half_size + 0, 0)
fwd_h_en(oh) == Min(oh + fwd_half_size + 1, H)
fwd_w_st(ow) == Max(ow - fwd_half_size + 0, 0)
fwd_w_en(ow) == Min(ow + fwd_half_size + 1, W)

RECURSIVE fwd_sum_across(_, _, _, _, _)
fwd_sum_across(mb, c, c_en, oh, ow) ==
    IF c >= c_en THEN 0
    ELSE LET s == SrcAt(data_off_fwd(mb, c, oh, ow))
         IN s * s + fwd_sum_across(mb, c + 1, c_en, oh, ow)

RECURSIVE fwd_sum_row(_, _, _, _, _)
fwd_sum_row(mb, oc, h, w, w_en) ==
    IF w >= w_en THEN 0
    ELSE LET s == SrcAt(data_off_fwd(mb, oc, h, w))
         IN s * s + fwd_sum_row(mb, oc, h, w + 1, w_en)

RECURSIVE fwd_sum_within(_, _, _, _, _, _)
fwd_sum_within(mb, oc, h, h_en, w_st, w_en) ==
    IF h >= h_en THEN 0
    ELSE fwd_sum_row(mb, oc, h, w_st, w_en)
         + fwd_sum_within(mb, oc, h + 1, h_en, w_st, w_en)

fwd_window(mb, oc, oh, ow) ==
    IF across_channels
    THEN {<<mb, c, oh, ow>> : c \in fwd_c_st(oc)..(fwd_c_en(oc) - 1)}
    ELSE {<<mb, oc, h, w>> : h \in fwd_h_st(oh)..(fwd_h_en(oh) - 1),
                             w \in fwd_w_st(ow)..(fwd_w_en(ow) - 1)}

\* Every offset of src one call reads.
fwd_reads(mb, oc, oh, ow) ==
    {data_off_fwd(x[1], x[2], x[3], x[4]) : x \in fwd_window(mb, oc, oh, ow)}
    \cup {data_off_fwd(mb, oc, oh, ow)}

\* Mutant of fwd_summands: the divisor counts the clamped window.
fwd_summands_clamped ==
    IF across_channels THEN Min(conf.size, C)
    ELSE Min(conf.size, H) * Min(conf.size, W)

fwd_summands == IF across_channels THEN conf.size ELSE conf.size * conf.size

\* One call ker(d, mb, oc, oh, ow); d is the element the driver points at.
fwd_ker(d, mb, oc, oh, ow) ==
    LET sum == IF across_channels
               THEN fwd_sum_across(mb, fwd_c_st(oc), fwd_c_en(oc), oh, ow)
               ELSE fwd_sum_within(mb, oc, fwd_h_st(oh), fwd_h_en(oh),
                                   fwd_w_st(ow), fwd_w_en(ow))
        omega == [num |-> conf.k * fwd_summands + conf.alpha * sum,
                  den |-> fwd_summands]
        off == data_off_fwd(mb, oc, oh, ow)
    IN [pass |-> "fwd", coord |-> <<mb, oc, oh, ow>>,
        window |-> fwd_window(mb, oc, oh, ow),
        src_reads |-> fwd_reads(mb, oc, oh, ow),
        dd_reads |-> {},
        divisor |-> fwd_summands,
        omega_of |-> [c \in {oc} |-> omega],
        powf_args |-> {omega},
        d |-> d,
        ws_off |-> IF conf.has_ws THEN {off} ELSE {},
        ws_val |-> omega,
        val |-> [s |-> SrcAt(off),
                 y |-> fast_negative_powf(omega, conf.beta)]]

\* ---- backward kernel ----------------------------------------------------
kernel_size == conf.size
half_ksize == (kernel_size - 1) \div 2
\* Mutant of bwd_c_st: the window starts one channel late.
bwd_c_st_late(oc) == Max(oc - half_ksize + 1, 0)

bwd_c_st(oc) == Max(oc - half_ksize + 0, 0)
\* Mutant of bwd_c_en: the upper end of the window is not clamped to C.
bwd_c_en_unclamped(oc) == oc + half_ksize + 1

bwd_c_en(oc) == Min(oc + half_ksize + 1, C)

\* The inner loop "for (int i = c_st; i < c_en; ++i)".
RECURSIVE bwd_sum(_, _, _, _, _)
bwd_sum(mb, i, c_en, oh, ow) ==
    IF i >= c_en THEN 0
    ELSE LET value == SrcAt(data_off_bwd(mb, i, oh, ow))
         IN value * value + bwd_sum(mb, i + 1, c_en, oh, ow)

\* Mutant of bwd_omega: the bias k is left out.
bwd_omega_no_bias(mb, oc, c, oh, ow) ==
    LET sum == bwd_sum(mb, bwd_c_st(oc), bwd_c_en(oc), oh, ow)
    IN [num |-> sum * conf.alpha, den |-> kernel_size]

\* omega of iteration c of the outer loop in the call for oc.
bwd_omega(mb, oc, c, oh, ow) ==
    LET sum == bwd_sum(mb, bwd_c_st(oc), bwd_c_en(oc), oh, ow)
    IN [num |-> conf.k * kernel_size + sum * conf.alpha, den |-> kernel_size]

\* The term iteration c adds to B: 1.0f / omega * t * diff_dst[..].
bwd_term(omega, mb, c, oh, ow) ==
    [inv |-> omega,
     t |-> [s |-> SrcAt(data_off_bwd(mb, c, oh, ow)),
            y |-> fast_negative_powf(omega, conf.beta)],
     dd |-> DiffDstAt(data_off_bwd(mb, c, oh, ow))]

\* Every offset of src (and of diff_dst) one call reads.
bwd_reads(mb, oc, oh, ow) ==
    {data_off_bwd(mb, c, oh, ow) : c \in bwd_c_st(oc)..(bwd_c_en(oc) - 1)}
    \cup {data_off_bwd(mb, oc, oh, ow)}

bwd_ker(d, mb, oc, oh, ow) ==
    LET cs == bwd_c_st(oc)..(bwd_c_en(oc) - 1)
        omega == [c \in cs |-> bwd_omega(mb, oc, c, oh, ow)]
        omega_mid == IF oc \in cs THEN omega[oc] ELSE [num |-> 0, den |-> 1]
        off == data_off_bwd(mb, oc, oh, ow)
        reads == bwd_reads(mb, oc, oh, ow)
        A == [y |-> fast_negative_powf(omega_mid, conf.beta),
              dd |-> DiffDstAt(off)]
        B == [terms |-> [c \in cs |-> bwd_term(omega[c], mb, c, oh, ow)],
              s |-> SrcAt(off),
              scale |-> [num |-> 2 * conf.alpha * conf.beta,
                         den |-> 4 * kernel_size]]
    IN [pass |-> "bwd", coord |-> <<mb, oc, oh, ow>>,
        window |-> {<<mb, c, oh, ow>> : c \in cs},
        src_reads |-> reads,
        dd_reads |-> reads,
        divisor |-> kernel_size,
        omega_of |-> omega,
        powf_args |-> {omega[c] : c \in cs} \cup {omega_mid},
        d |-> d,
        ws_off |-> {},
        ws_val |-> omega_mid,
        val |-> [A |-> A, B |-> B]]

\* ---- parallel iteration driver ------------------------------------------
\* Number of values the loop "for (c = 0; c < C; c += blksize)" takes.
NCBlk == (C + blksize - 1) \div blksize

\* Mutant of NIter: the nest stops one iteration short.
NIter_short == (IF IsBlocked THEN MB * NCBlk * H * W ELSE MB * C * H * W) - 1

\* Iterations of the collapsed nest of the layout.
NIter == IF IsBlocked THEN MB * NCBlk * H * W ELSE MB * C * H * W

\* schedule(static): thread t owns iterations ChunkLo(t) .. ChunkHi(t) - 1.
ChunkLen == (NIter + Cardinality(Threads) - 1) \div Cardinality(Threads)
ChunkLo(t) == Min(t * ChunkLen, NIter)
ChunkHi(t) == Min((t + 1) * ChunkLen, NIter)

\* Mutant of fwd_nest: every lane of a block stores to &dst[off].
fwd_nest_one_lane(i) ==
    CASE IsBlocked ->
            LET w == i % W
                h == (i \div W) % H
                c == ((i \div (W * H)) % NCBlk) * blksize
                mb == i \div (W * H * NCBlk)
                off == mb * CHW + c * H * W + (h * W + w) * blksize
            IN [cc \in 0..(blksize - 1) |-> <<off, mb, c + cc, h, w>>]
      [] conf.fmt = "nhwc" ->
            LET c == i % C
                w == (i \div C) % W
                h == (i \div (C * W)) % H
                mb == i \div (C * W * H)
                off == mb * CHW + h * W * C + w * C + c
            IN [cc \in {0} |-> <<off, mb, c, h, w>>]
      [] OTHER ->
            LET w == i % W
                h == (i \div W) % H
                c == (i \div (W * H)) % C
                mb == i \div (W * H * C)
                off == data_off_fwd(mb, c, h, w)
            IN [cc \in {0} |-> <<off, mb, c, h, w>>]

\* Iteration i of execute_forward's nest: the arguments <<off, mb, c, h, w>>
\* of its calls ker(&dst[off], mb, c, h, w), by cc.
fwd_nest(i) ==
    CASE IsBlocked ->
            LET w == i % W
                h == (i \div W) % H
                c == ((i \div (W * H)) % NCBlk) * blksize
                mb == i \div (W * H * NCBlk)
                off == mb * CHW + c * H * W + (h * W + w) * blksize
            IN [cc \in 0..(blksize - 1) |-> <<off + cc, mb, c + cc, h, w>>]
      [] conf.fmt = "nhwc" ->
            LET c == i % C
                w == (i \div C) % W
                h == (i \div (C * W)) % H
                mb == i \div (C * W * H)
                off == mb * CHW + h * W * C + w * C + c
            IN [cc \in {0} |-> <<off, mb, c, h, w>>]
      [] OTHER ->
            LET w == i % W
                h == (i \div W) % H
                c == (i \div (W * H)) % C
                mb == i \div (W * H * C)
                off == data_off_fwd(mb, c, h, w)
            IN [cc \in {0} |-> <<off, mb, c, h, w>>]

\* Mutant of bwd_nest: the nhwc and nchw addresses leave the column out.
bwd_nest_no_column(i) ==
    CASE IsBlocked ->
            LET w == i % W
                h == (i \div W) % H
                c == ((i \div (W * H)) % NCBlk) * blksize
                mb == i \div (W * H * NCBlk)
                off == mb * CHW + c * H * W + (h * W + w) * blksize
            IN [cc \in 0..(blksize - 1) |-> <<off + cc, mb, c + cc, h, w>>]
      [] conf.fmt = "nhwc" ->
            LET c == i % C
                w == (i \div C) % W
                h == (i \div (C * W)) % H
                mb == i \div (C * W * H)
                off == mb * CHW + h * W * C + c
            IN [cc \in {0} |-> <<off, mb, c, h, w>>]
      [] OTHER ->
            LET w == i % W
                h == (i \div W) % H
                c == (i \div (W * H)) % C
                mb == i \div (W * H * C)
                off == data_off_bwd(mb, c, h, 0)
            IN [cc \in {0} |-> <<off, mb, c, h, w>>]

\* Iteration i of execute_backward's nest: the arguments of its calls
\* ker(&diff_src[off], mb, c, h, w), by cc.
bwd_nest(i) ==
    CASE IsBlocked ->
            LET w == i % W
                h == (i \div W) % H
                c == ((i \div (W * H)) % NCBlk) * blksize
                mb == i \div (W * H * NCBlk)
                off == mb * CHW + c * H * W + (h * W + w) * blksize
            IN [cc \in 0..(blksize - 1) |-> <<off + cc, mb, c + cc, h, w>>]
      [] conf.fmt = "nhwc" ->
            LET c == i % C
                w == (i \div C) % W
                h == (i \div (C * W)) % H
                mb == i \div (C * W * H)
                off == mb * CHW + h * W * C + w * C + c
            IN [cc \in {0} |-> <<off, mb, c, h, w>>]
      [] OTHER ->
            LET w == i % W
                h == (i \div W) % H
                c == (i \div (W * H)) % C
                mb == i \div (W * H * C)
                off == data_off_bwd(mb, c, h, w)
            IN [cc \in {0} |-> <<off, mb, c, h, w>>]

\* The kernel calls of iteration i, evaluated.
fwd_calls(i) ==
    LET args == fwd_nest(i)
    IN [cc \in DOMAIN args |->
           fwd_ker(args[cc][1], args[cc][2], args[cc][3], args[cc][4],
                   args[cc][5])]

bwd_calls(i) ==
    LET args == bwd_nest(i)
    IN [cc \in DOMAIN args |->
           bwd_ker(args[cc][1], args[cc][2], args[cc][3], args[cc][4],
                   args[cc][5])]

\* ---- buffer writes -------------------------------------------------------
\* The inner cc loop runs in order: the last call that hits an element wins.
LastHit(hits) == CHOOSE cc \in hits : \A other \in hits : other <= cc

\* "*d = value" of every call.
StoreD(buf, calls) ==
    [o \in DOMAIN buf |->
        LET hits == {cc \in DOMAIN calls : calls[cc].d = o}
        IN IF hits = {} THEN buf[o] ELSE calls[LastHit(hits)].val]

\* "ws[off] = sum" of every call that has a workspace.
StoreWs(buf, calls) ==
    [o \in DOMAIN buf |->
        LET hits == {cc \in DOMAIN calls : o \in calls[cc].ws_off}
        IN IF hits = {} THEN buf[o] ELSE calls[LastHit(hits)].ws_val]

\* Ghost: how many kernel calls have stored to each element.
CountD(n, calls) ==
    [o \in DOMAIN n |->
        n[o] + Cardinality({cc \in DOMAIN calls : calls[cc].d = o})]

CountWs(n, calls) ==
    [o \in DOMAIN n |->
        n[o] + Cardinality({cc \in DOMAIN calls : o \in calls[cc].ws_off})]

\* ---- the caller: tensors and parameters ----------------------------------
Unwritten == [unwritten |-> TRUE]
NoCalls == [cc \in {} |-> Unwritten]

Coords == (0..(MB - 1)) \X (0..(C - 1)) \X (0..(H - 1)) \X (0..(W - 1))

\* Logical tensors handed in by the caller, by seed.
SrcLogical(x) ==
    (conf.seed + x[1] + 2 * x[2] + x[3] + x[4] * (x[2] + 1)) % (MaxVal + 1)

DiffDstLogical(x) ==
    (conf.seed + 1 + x[1] + x[2] + 2 * x[3] + x[4]) % (MaxVal + 1)

\* The caller lays a logical tensor out in a flat buffer of MB*C*H*W elements
\* by the format's offset function; an element no coordinate maps to is 0.
Placed ==
    LET at == [x \in Coords |-> data_off_fwd(x[1], x[2], x[3], x[4])]
    IN [o \in 0..(BufSize - 1) |-> {x \in Coords : at[x] = o}]

LaySrc(placed) ==
    [o \in DOMAIN placed |->
        IF placed[o] = {} THEN 0 ELSE SrcLogical(CHOOSE x \in placed[o] : TRUE)]

LayDiffDst(placed) ==
    [o \in DOMAIN placed |->
        IF placed[o] = {} THEN 0 ELSE DiffDstLogical(CHOOSE x \in placed[o] : TRUE)]

\* Channel counts: the small ones and, for a blocked layout, whole blocks.
Channels(fmt, small) ==
    small \cup
    (IF fmt \in {"nChw16c", "nChw8c"}
     THEN {nb * (IF fmt = "nChw16c" THEN 16 ELSE 8) : nb \in 1..MaxCBlk}
     ELSE {})

Sizes == {2 * hs + 1 : hs \in 0..MaxHalf}

\* What lies beyond the buffers matters only if some call reads there.
ReadsBeyond ==
    \E i \in 0..(NIter - 1) :
        LET args == fwd_nest(i)
        IN \E cc \in DOMAIN args :
              \E o \in fwd_reads(args[cc][2], args[cc][3], args[cc][4], args[cc][5])
                      \cup bwd_reads(args[cc][2], args[cc][3], args[cc][4],
                                     args[cc][5]) : ~InBuf(o)

InitWith(fmts, mbs, cs, hws, modes, wss, sizes, ks, alphas, betas, seeds) ==
    /\ \E fmt \in fmts, across \in modes, has_ws \in wss,
          mb \in mbs, h \in hws, w \in hws,
          size \in sizes, k \in ks, alpha \in alphas, beta \in betas,
          seed \in seeds :
          \E c \in Channels(fmt, cs) :
             conf = [fmt |-> fmt, across |-> across, has_ws |-> has_ws,
                     MB |-> mb, C |-> c, H |-> h, W |-> w, size |-> size,
                     k |-> k, alpha |-> alpha, beta |-> beta, seed |-> seed]
    /\ NIter <= MaxIter
    /\ NIter * Cardinality(DOMAIN fwd_nest(0)) <= MaxCalls
    /\ \E placed \in {Placed} :
          /\ src = LaySrc(placed)
          /\ diff_dst = LayDiffDst(placed)
    /\ junk \in IF ReadsBeyond THEN {0, MaxVal} ELSE {0}
    /\ dst = [o \in 0..(BufSize - 1) |-> Unwritten]
    /\ ws = [o \in 0..(BufSize - 1) |-> Unwritten]
    /\ diff_src = [o \in 0..(BufSize - 1) |-> Unwritten]
    /\ pc = "forward"
    /\ pos = [t \in Threads |-> ChunkLo(t)]
    /\ nwrites = [dst |-> [o \in 0..(BufSize - 1) |-> 0],
                  ws |-> [o \in 0..(BufSize - 1) |-> 0],
                  diff_src |-> [o \in 0..(BufSize - 1) |-> 0]]
    /\ last = NoCalls

\* Spec: every layout and shape, one parameter set, one pair of tensors.
Init ==
    InitWith(Fmts, 1..MaxDim, 1..MaxDim, 1..MaxDim, BOOLEAN, BOOLEAN, {3},
             {1}, {1}, {3}, {0})

\* SpecKer: one image in nchw, every parameter set, several tensors.
InitKer ==
    InitWith({"nchw"}, {1}, 1..(MaxDim + 1), 1..MaxDim, BOOLEAN, {TRUE}, Sizes,
             {0, 1}, {0, 1}, {3, 4}, {0, 1})

\* ---- actions --------------------------------------------------------------
\* Thread t runs the next iteration of its chunk of execute_forward's nest.
ForwardIter(t) ==
    /\ pc = "forward"
    /\ pos[t] < ChunkHi(t)
    /\ last' = fwd_calls(pos[t])
    /\ dst' = StoreD(dst, last')
    /\ ws' = StoreWs(ws, last')
    /\ nwrites' = [nwrites EXCEPT !.dst = CountD(@, last'),
                                  !.ws = CountWs(@, last')]
    /\ pos' = [pos EXCEPT ![t] = @ + 1]
    /\ UNCHANGED <<conf, src, diff_dst, junk, diff_src, pc>>

\* End of execute_forward's parallel region; execute_backward is invoked.
ForwardJoin ==
    /\ pc = "forward"
    /\ \A t \in Threads : pos[t] = ChunkHi(t)
    /\ pc' = "backward"
    /\ pos' = [t \in Threads |-> ChunkLo(t)]
    /\ last' = NoCalls
    /\ UNCHANGED <<conf, src, diff_dst, junk, dst, ws, diff_src, nwrites>>

\* Thread t runs the next iteration of its chunk of execute_backward's nest.
BackwardIter(t) ==
    /\ pc = "backward"
    /\ pos[t] < ChunkHi(t)
    /\ last' = bwd_calls(pos[t])
    /\ diff_src' = StoreD(diff_src, last')
    /\ nwrites' = [nwrites EXCEPT !.diff_src = CountD(@, last')]
    /\ pos' = [pos EXCEPT ![t] = @ + 1]
    /\ UNCHANGED <<conf, src, diff_dst, junk, dst, ws, pc>>

\* End of execute_backward's parallel region.
BackwardJoin ==
    /\ pc = "backward"
    /\ \A t \in Threads : pos[t] = ChunkHi(t)
    /\ pc' = "done"
    /\ last' = NoCalls
    /\ UNCHANGED <<conf, src, diff_dst, junk, dst, ws, diff_src, pos, nwrites>>

Next ==
    \/ \E t \in Threads : ForwardIter(t)
    \/ ForwardJoin
    \/ \E t \in Threads : BackwardIter(t)
    \/ BackwardJoin

Spec == Init /\ [][Next]_vars

SpecKer == InitKer /\ [][Next]_vars

\* ======================= properties ========================================
\* A blocked layout holds whole blocks only when C is a multiple of blksize.
WholeBlocks == IsBlocked => C % blksize = 0

Abs(n) == IF n < 0 THEN -n ELSE n

\* Every offset the calls of the latest iteration read or wrote.
Touched(call) ==
    {call.d} \cup call.src_reads \cup call.dd_reads \cup call.ws_off

AllInBounds == \A cc \in DOMAIN last : \A o \in Touched(last[cc]) : InBuf(o)

\* C1 (as stated): for every shape and layout, every offset at which forward
\* reads src or writes dst / workspace, and at which backward reads src /
\* diff_dst or writes diff_src, lies in [0, MB*C*H*W).
C1_InBoundsEveryShape == AllInBounds

\* C1 (amended): the same for every shape whose channel count is a multiple
\* of the block size when the layout is blocked.
C1_InBoundsWholeBlocks == WholeBlocks => AllInBounds

\* A backward iteration of a blocked tensor of whole blocks has run its last
\* lane in the last image.
C1_Witness ==
    /\ pc = "backward" /\ IsBlocked /\ WholeBlocks /\ MB >= 2
    /\ \E cc \in DOMAIN last : cc = blksize - 1 /\ last[cc].coord[1] = MB - 1

\* ---- C2 -------------------------------------------------------------------
RECURSIVE SumTo(_, _)
SumTo(f, n) == IF n < 0 THEN 0 ELSE f[n] + SumTo(f, n - 1)

\* Stores one step added to a buffer's elements.
Added(buf) == SumTo(nwrites'[buf], BufSize - 1) - SumTo(nwrites[buf], BufSize - 1)

IsIter == pos' # pos /\ pc' = pc

\* One step: the inputs are left alone; every kernel call of an iteration
\* stores to one element of dst (and of ws when there is one) or of diff_src;
\* no element has been stored to by two calls.
DisjointWrites ==
    /\ src' = src /\ diff_dst' = diff_dst
    /\ IsIter /\ pc = "forward" =>
          /\ Added("dst") = Cardinality(DOMAIN last')
          /\ Added("ws") = IF conf.has_ws THEN Cardinality(DOMAIN last') ELSE 0
          /\ Added("diff_src") = 0
    /\ IsIter /\ pc = "backward" =>
          /\ Added("diff_src") = Cardinality(DOMAIN last')
          /\ Added("dst") = 0 /\ Added("ws") = 0
    /\ \A buf \in {"dst", "ws", "diff_src"} :
          \A o \in DOMAIN nwrites'[buf] : nwrites'[buf][o] <= 1

\* C2 (as stated): in every invocation, for all four layouts and every
\* shape, each kernel call writes exactly one element of the output buffer
\* (and one of the workspace), no two calls write the same offset, and src
\* and diff_dst are never written.
C2_DisjointEveryShape == [][DisjointWrites]_vars

\* C2 (amended): the same for every shape whose channel count is a multiple
\* of the block size when the layout is blocked.
C2_DisjointWholeBlocks == [][WholeBlocks => DisjointWrites]_vars

\* Both invocations of a blocked tensor with a workspace have completed.
C2_Witness ==
    /\ pc = "done" /\ IsBlocked /\ WholeBlocks /\ conf.has_ws /\ MB >= 2
    /\ \A o \in 0..(BufSize - 1) : nwrites.ws[o] = 1 /\ nwrites.diff_src[o] = 1

\* ---- C4 -------------------------------------------------------------------
Image(off(_, _, _, _)) == {off(x[1], x[2], x[3], x[4]) : x \in Coords}

Bijective(off(_, _, _, _)) ==
    /\ Image(off) = 0..(BufSize - 1)
    /\ \A x \in Coords : \A y \in Coords :
          off(x[1], x[2], x[3], x[4]) = off(y[1], y[2], y[3], y[4]) => x = y

\* C4 (as stated): for each layout and every shape, data_off restricted to
\* the coordinates in range is a bijection onto [0, MB*C*H*W).  (Checked for
\* the shape of every invocation, once it has completed.)
C4_BijectiveEveryShape ==
    pc = "done" => Bijective(data_off_fwd) /\ Bijective(data_off_bwd)

\* C4 (amended): the same for every shape whose channel count is a multiple
\* of the block size when the layout is blocked.
C4_BijectiveWholeBlocks ==
    pc = "done" /\ WholeBlocks => Bijective(data_off_fwd) /\ Bijective(data_off_bwd)

\* A blocked tensor of whole blocks with several images and rows, whose
\* kernels have used data_off throughout.
C4_Witness ==
    /\ pc = "done" /\ IsBlocked /\ WholeBlocks /\ MB >= 2 /\ H >= 2
    /\ Bijective(data_off_fwd)

\* ---- references, by logical coordinate (no layout) ------------------------
RefHalf == (conf.size - 1) \div 2

RefWindowAcross(x) ==
    {y \in Coords : y[1] = x[1] /\ y[3] = x[3] /\ y[4] = x[4]
                    /\ Abs(y[2] - x[2]) <= RefHalf}

RefWindowWithin(x) ==
    {y \in Coords : y[1] = x[1] /\ y[2] = x[2]
                    /\ Abs(y[3] - x[3]) <= RefHalf /\ Abs(y[4] - x[4]) <= RefHalf}

RECURSIVE SumSq(_)
SumSq(S) ==
    IF S = {} THEN 0
    ELSE LET y == CHOOSE z \in S : TRUE
         IN SrcLogical(y) * SrcLogical(y) + SumSq(S \ {y})

RefOmega(x) ==
    IF conf.across
    THEN [num |-> conf.k * conf.size + conf.alpha * SumSq(RefWindowAcross(x)),
          den |-> conf.size]
    ELSE [num |-> conf.k * conf.size * conf.size
                  + conf.alpha * SumSq(RefWindowWithin(x)),
          den |-> conf.size * conf.size]

RefDst(x) ==
    [s |-> SrcLogical(x), y |-> fast_negative_powf(RefOmega(x), conf.beta)]

\* ---- C5 -------------------------------------------------------------------
\* During forward the driver's dst address is data_off of the coordinate it
\* hands to the kernel; after forward, every coordinate in range holds the
\* layout-free reference value in dst and the reference omega in ws.
LayoutFree ==
    /\ pc = "forward" =>
          \A cc \in DOMAIN last :
             LET x == last[cc].coord
             IN last[cc].d = data_off_fwd(x[1], x[2], x[3], x[4])
    /\ pc = "backward" /\ last = NoCalls =>
          \A x \in Coords :
             LET o == data_off_fwd(x[1], x[2], x[3], x[4])
             IN /\ InBuf(o)
                /\ dst[o] = RefDst(x)
                /\ conf.has_ws => ws[o] = RefOmega(x)

\* C5 (as stated): for the same logical src, forward under nchw, nhwc,
\* nChw8c and nChw16c yields the same logical dst value and workspace omega at
\* every coordinate in range, and the driver's dst address is data_off of the
\* coordinate handed to the kernel.
C5_LayoutFreeEveryShape == LayoutFree

\* C5 (amended): the same for every shape whose channel count is a multiple
\* of the block size when the layout is blocked.
C5_LayoutFreeWholeBlocks == WholeBlocks => LayoutFree

\* Forward of a blocked tensor with a workspace has just completed.
C5_Witness ==
    /\ pc = "backward" /\ last = NoCalls /\ IsBlocked /\ WholeBlocks
    /\ conf.has_ws /\ MB >= 2 /\ W >= 2
    /\ \A o \in 0..(BufSize - 1) : dst[o] # Unwritten /\ ws[o] # Unwritten

\* ---- C9 -------------------------------------------------------------------
\* The buffers after iterations i .. NIter - 1 run one after another.
RECURSIVE SeqDst(_, _)
SeqDst(i, buf) ==
    IF i >= NIter THEN buf ELSE SeqDst(i + 1, StoreD(buf, fwd_calls(i)))

RECURSIVE SeqWs(_, _)
SeqWs(i, buf) ==
    IF i >= NIter THEN buf ELSE SeqWs(i + 1, StoreWs(buf, fwd_calls(i)))

RECURSIVE SeqDiffSrc(_, _)
SeqDiffSrc(i, buf) ==
    IF i >= NIter THEN buf ELSE SeqDiffSrc(i + 1, StoreD(buf, bwd_calls(i)))

Blank == [o \in 0..(BufSize - 1) |-> Unwritten]

\* Whatever the interleaving, the buffers end as the in-order run leaves them.
OrderFree ==
    /\ pc = "backward" /\ last = NoCalls =>
          dst = SeqDst(0, Blank) /\ ws = SeqWs(0, Blank)
    /\ pc = "done" =>
          diff_src = SeqDiffSrc(0, Blank)

\* C9 (as stated): for fixed inputs the final contents of dst, workspace and
\* diff_src are the same for every order and interleaving of the parallel
\* tasks, for all four layouts and every shape.
C9_OrderFreeEveryShape == OrderFree

\* C9 (amended): the same for every shape whose channel count is a multiple
\* of the block size when the layout is blocked.
C9_OrderFreeWholeBlocks == WholeBlocks => OrderFree

\* The second thread ran its whole forward chunk first and its whole backward
\* chunk before the first thread's last iteration; the buffers are complete.
C9_Witness ==
    /\ pc = "backward" /\ NIter >= 4 /\ MB >= 2 /\ WholeBlocks
    /\ pos[1] = ChunkHi(1) /\ pos[0] = ChunkHi(0) /\ last = bwd_calls(ChunkHi(0) - 1)
    /\ dst = SeqDst(0, Blank)
    /\ diff_src = SeqDiffSrc(0, Blank)
    /\ \A o \in 0..(BufSize - 1) : diff_src[o] # Unwritten

\* ---- C10 ------------------------------------------------------------------
\* Every element of dst and diff_src has been stored to once and holds the
\* kernel's value for the one coordinate in range the layout maps to it.
Covered ==
    \A o \in 0..(BufSize - 1) :
       /\ nwrites.dst[o] = 1 /\ nwrites.diff_src[o] = 1
       /\ \E x \in Coords :
             /\ data_off_fwd(x[1], x[2], x[3], x[4]) = o
             /\ \A y \in Coords :
                   data_off_fwd(y[1], y[2], y[3], y[4]) = o => y = x
             /\ dst[o] = fwd_ker(o, x[1], x[2], x[3], x[4]).val
             /\ diff_src[o] = bwd_ker(o, x[1], x[2], x[3], x[4]).val

\* FairSpec: every layout, tensors of one or two images, rows and columns;
\* the threads of a parallel region all run, so no enabled step waits forever.
InitFair ==
    InitWith(Fmts, {1, 2}, {2}, {1, 2}, {TRUE}, {TRUE}, {3}, {1}, {1}, {3}, {0})

FairSpec == InitFair /\ [][Next]_vars /\ WF_vars(Next)

\* C10 (as stated), its final result: when the invocations have ended every
\* offset of dst and of diff_src has been written exactly once, with the
\* kernel value of the unique coordinate in range the layout maps there.
C10_CoveredEveryShape == pc = "done" => Covered

\* C10 (amended): every invocation terminates under fair scheduling, and for
\* every shape whose channel count is a multiple of the block size when the
\* layout is blocked it ends with every output offset written exactly once,
\* with the kernel value of its unique coordinate.
C10_EndsCovered == <>(pc = "done" /\ (WholeBlocks => Covered))

\* A whole-block tensor of several images has ended, fully covered.
C10_Witness == pc = "done" /\ IsBlocked /\ WholeBlocks /\ MB >= 2 /\ Covered

\* ---- C3 -------------------------------------------------------------------
\* C3: in backward (across channels), the omega used for channel c of the
\* window of (mb, oc, oh, ow) is the omega of c's own clamped window, the one
\* forward stored in the workspace at (mb, c, oh, ow).
C3_OmegaOfOwnWindow ==
    pc = "backward" /\ conf.across /\ conf.has_ws =>
       \A cc \in DOMAIN last :
          LET x == last[cc].coord
          IN \A c \in DOMAIN last[cc].omega_of :
                last[cc].omega_of[c] = ws[data_off_bwd(x[1], c, x[3], x[4])]

\* ---- C6 -------------------------------------------------------------------
\* C6: a forward call sums the squares of exactly the neighbours in range
\* (channels within half of oc at (oh, ow), or rows and columns within half of
\* (oh, ow) at oc) and divides by the full local_size, resp. local_size^2.
C6_ClampedWindowFullDivisor ==
    pc = "forward" =>
       \A cc \in DOMAIN last :
          LET x == last[cc].coord
              o == data_off_fwd(x[1], x[2], x[3], x[4])
          IN x \in Coords =>
                /\ last[cc].window
                      = IF conf.across THEN RefWindowAcross(x)
                        ELSE RefWindowWithin(x)
                /\ last[cc].divisor
                      = IF conf.across THEN conf.size ELSE conf.size * conf.size
                /\ last[cc].ws_val = RefOmega(x)
                /\ conf.has_ws => ws[o] = RefOmega(x)
                /\ dst[o] = RefDst(x)

\* The example of the claim: C = 4, local_size = 5, channel 0 sums channels
\* 0, 1, 2 and divides by 5.
C6_Witness ==
    /\ pc = "forward" /\ conf.across /\ C = 4 /\ conf.size = 5 /\ conf.alpha = 1
    /\ \E cc \in DOMAIN last :
          /\ last[cc].coord[2] = 0
          /\ {y[2] : y \in last[cc].window} = {0, 1, 2}
          /\ last[cc].ws_val.den = 5
          /\ last[cc].ws_val.num > 5 * conf.k

\* ---- C7 -------------------------------------------------------------------
\* Every omega the calls of the latest iteration passed to
\* fast_negative_powf or divided by, for a coordinate in range, is positive.
OmegasPositive ==
    \A cc \in DOMAIN last :
       last[cc].coord \in Coords =>
          \A omega \in last[cc].powf_args : omega.num > 0 /\ omega.den > 0

\* C7 (as stated): whenever k >= 0 and alpha >= 0, every omega forward and
\* backward pass to fast_negative_powf or divide by is strictly positive.
C7_PositiveForNonNegativeK == conf.k >= 0 /\ conf.alpha >= 0 => OmegasPositive

\* C7 (amended): whenever k > 0 and alpha >= 0, the same.
C7_PositiveForPositiveK == conf.k > 0 /\ conf.alpha >= 0 => OmegasPositive

\* A backward call over several channels with k > 0 and a nonzero sum.
C7_Witness ==
    /\ pc = "backward" /\ conf.k > 0 /\ conf.alpha > 0
    /\ \E cc \in DOMAIN last :
          /\ Cardinality(last[cc].window) >= 2
          /\ \E omega \in last[cc].powf_args : omega.num > conf.k * omega.den

\* ---- C8 -------------------------------------------------------------------
BwdReadsOf(call) == call.src_reads \cup call.dd_reads

OffsetsOf(S) == {data_off_bwd(y[1], y[2], y[3], y[4]) : y \in S}

====
